---- MODULE Spec2Model ----
(***************************************************************************)
(* Matching core of the exchange: balance cache, order book, matcher,      *)
(* executor, write-ahead log and the single-threaded engine loop.          *)
(* Amounts are integers in the smallest unit of each asset.                *)
(***************************************************************************)
EXTENDS Integers, Sequences, FiniteSets, TLC

\* ---------------------------------------------------------------- bounds
MaxOrders == 3
MaxCancels == 2
MaxCommands == 4
MaxQueue == 2
SteadyOrders == 8
SteadyAmount == 5000
MaxAbandons == 1
MaxTransfers == 3
MaxLiveCommands == 4
MaxRequests == 3
InitBase == 20000
InitQuote == 30000

Users == {"A", "B"}
Prices == {1, 2}
Amounts == {10000, 20000}
MarketAmounts == {20000}
QuoteAmounts == {20000}

\* ------------------------------------------------------ program constants
BASE == "SOL"
QUOTE == "USDT"
Assets == {BASE, QUOTE}
FeeRateNum == 1
FeeRateDen == 10000
SyncEvery == 10

VARIABLES
    balances,     \* BalanceCache: user -> asset -> [available, locked]
    orderbook,    \* OrderBook: [buy_side, sell_side, orders_by_id]
    orders,       \* order records: id -> Order
    trades,       \* Trade records, in execution order
    order_queue,  \* order_tx / order_rx channel
    replies,      \* per-request oneshot reply channels: command id -> result
    wal_queue,    \* wal_tx / wal_rx channel
    wal_file,     \* entries appended by the WAL thread
    wal_synced,   \* number of entries of wal_file covered by the last fsync
    wal_alive,    \* the WAL thread still holds the receiving end of wal_rx
    wal_seq,      \* last WAL sequence number handed out
    next_id,      \* next command / order id
    n_orders,     \* SubmitOrder commands sent so far
    n_cancels,    \* CancelOrder commands sent so far
    pc,           \* position of the engine thread inside its loop
    cur,          \* command being processed
    matches,      \* MatchResult list of the current command
    match_idx,    \* next MatchResult to execute
    isRefreshing,    \* ApiClient.isRefreshing
    refreshPromise,  \* ApiClient.refreshPromise: 0 (null) or the promise of
                     \* the refresh started by that request
    promises,        \* refreshAccessToken() promises, one per starting request
    tokens,          \* TokenStorage holds an access and a refresh token
    requests         \* ApiClient.request calls: id -> position and locals

serverVars == <<balances, orderbook, orders, trades, order_queue, replies,
                wal_queue, wal_file, wal_synced, wal_alive, wal_seq, next_id,
                n_orders, n_cancels, pc, cur, matches, match_idx>>

clientVars == <<isRefreshing, refreshPromise, promises, tokens, requests>>

vars == <<serverVars, clientVars>>

\* ---------------------------------------------------------------- helpers
Min(a, b) == IF a <= b THEN a ELSE b

MapPut(f, k, v) == [x \in DOMAIN f \cup {k} |-> IF x = k THEN v ELSE f[x]]

MapDel(f, k) == [x \in DOMAIN f \ {k} |-> f[x]]

EmptyMap == [x \in {} |-> 0]

NoCmd == [type |-> "none", id |-> 0]

SetMin(S) == CHOOSE x \in S : \A y \in S : x <= y

SetMax(S) == CHOOSE x \in S : \A y \in S : x >= y

RECURSIVE SeqSum(_)
SeqSum(s) == IF s = <<>> THEN 0 ELSE Head(s) + SeqSum(Tail(s))

\* ----------------------------------------------------------- balance cache
\* fee = amount * fee_rate, rounded down to the smallest unit
Fee(amount) == (amount * FeeRateNum) \div FeeRateDen

\* lock without the balance check
has_available_unchecked(bal, u, a, amt) == TRUE

has_available(bal, u, a, amt) == bal[u][a].available >= amt

\* the amount is locked but not taken from available
lock_balance_no_debit(bal, u, a, amt) ==
    [bal EXCEPT ![u][a].locked = @ + amt]

lock_balance(bal, u, a, amt) ==
    [bal EXCEPT ![u][a].available = @ - amt, ![u][a].locked = @ + amt]

\* the lock is dropped but nothing comes back to available
unlock_balance_no_credit(bal, u, a, amt) ==
    [bal EXCEPT ![u][a].locked = @ - amt]

unlock_balance(bal, u, a, amt) ==
    [bal EXCEPT ![u][a].locked = @ - amt, ![u][a].available = @ + amt]

\* the buyer's locked quote is left untouched
settle_fill_buyer_not_debited(bal, buyer, seller, price, quantity) ==
    [bal EXCEPT ![buyer][BASE].available = @ + quantity - Fee(quantity),
                ![seller][BASE].locked = @ - quantity,
                ![seller][QUOTE].available =
                    @ + price * quantity - Fee(price * quantity)]

\* the seller's fee is taken twice
settle_fill_fee_twice(bal, buyer, seller, price, quantity) ==
    [bal EXCEPT ![buyer][QUOTE].locked = @ - price * quantity,
                ![buyer][BASE].available = @ + quantity - Fee(quantity),
                ![seller][BASE].locked = @ - quantity,
                ![seller][QUOTE].available =
                    @ + price * quantity - 2 * Fee(price * quantity)]

\* buyer pays locked quote and receives base net of fee; seller pays locked
\* base and receives quote net of fee
settle_fill(bal, buyer, seller, price, quantity) ==
    [bal EXCEPT ![buyer][QUOTE].locked = @ - price * quantity,
                ![buyer][BASE].available = @ + quantity - Fee(quantity),
                ![seller][BASE].locked = @ - quantity,
                ![seller][QUOTE].available =
                    @ + price * quantity - Fee(price * quantity)]

\* ---------------------------------------------------------------- order book
EmptyBook ==
    [buy_side |-> [p \in Prices |-> <<>>],
     sell_side |-> [p \in Prices |-> <<>>],
     orders_by_id |-> EmptyMap]

SideOf(ob, side) == IF side = "buy" THEN ob.buy_side ELSE ob.sell_side

WithSide(ob, side, levels) ==
    IF side = "buy" THEN [ob EXCEPT !.buy_side = levels]
    ELSE [ob EXCEPT !.sell_side = levels]

\* a limit order goes to the back of its price level; a market order has no
\* price level
add_order(ob, o) ==
    IF o.kind # "limit" THEN ob
    ELSE [WithSide(ob, o.side,
                   [SideOf(ob, o.side) EXCEPT ![o.price] =
                       Append(@, [id |-> o.id, remaining |-> o.amount])])
          EXCEPT !.orders_by_id =
              MapPut(@, o.id, [user |-> o.user, side |-> o.side,
                               price |-> o.price, remaining |-> o.amount])]

\* the order leaves its price level but stays in the id lookup
remove_order_level_only(ob, id) ==
    LET e == ob.orders_by_id[id]
    IN  WithSide(ob, e.side,
                 [SideOf(ob, e.side) EXCEPT ![e.price] =
                     SelectSeq(@, LAMBDA x : x.id # id)])

remove_order(ob, id) ==
    LET e == ob.orders_by_id[id]
    IN  [WithSide(ob, e.side,
                  [SideOf(ob, e.side) EXCEPT ![e.price] =
                      SelectSeq(@, LAMBDA x : x.id # id)])
         EXCEPT !.orders_by_id = MapDel(@, id)]

\* a partial fill updates the price level but not the id lookup
reduce_or_remove_level_only(ob, id, q) ==
    LET e == ob.orders_by_id[id]
        r == e.remaining - q
    IN  IF r <= 0 THEN remove_order(ob, id)
        ELSE WithSide(ob, e.side,
                      [SideOf(ob, e.side) EXCEPT ![e.price] =
                          [i \in 1..Len(@) |->
                              IF @[i].id = id
                              THEN [@[i] EXCEPT !.remaining = r]
                              ELSE @[i]]])

reduce_or_remove(ob, id, q) ==
    LET e == ob.orders_by_id[id]
        r == e.remaining - q
    IN  IF r <= 0 THEN remove_order(ob, id)
        ELSE [WithSide(ob, e.side,
                       [SideOf(ob, e.side) EXCEPT ![e.price] =
                           [i \in 1..Len(@) |->
                               IF @[i].id = id
                               THEN [@[i] EXCEPT !.remaining = r]
                               ELSE @[i]]])
              EXCEPT !.orders_by_id[id].remaining = r]

\* ------------------------------------------------------------------ matcher
\* no price condition at all
Crosses_always(o, p) == TRUE

\* an order at the price of the resting order does not cross it
Crosses_strict(o, p) ==
    \/ o.kind = "market"
    \/ o.side = "buy" /\ o.price > p
    \/ o.side = "sell" /\ o.price < p

\* price condition: buy price >= sell price; a market order takes any price
Crosses(o, p) ==
    \/ o.kind = "market"
    \/ o.side = "buy" /\ o.price >= p
    \/ o.side = "sell" /\ o.price <= p

\* the worst opposite price first
BestOpposite_worst(side, cands) ==
    IF side = "buy" THEN SetMax(cands) ELSE SetMin(cands)

\* best opposite price: lowest ask for a buy, highest bid for a sell
BestOpposite(side, cands) ==
    IF side = "buy" THEN SetMin(cands) ELSE SetMax(cands)

\* the newest order of the level first
NextMaker_last(level) == level[Len(level)]

\* within a price level the order that arrived first is matched first
NextMaker(level) == Head(level)

\* a limit taker trades at its own price
FillPrice_taker(o, makerPrice) ==
    IF o.kind = "limit" THEN o.price ELSE makerPrice

\* a trade executes at the resting order's price
FillPrice(o, makerPrice) == makerPrice

\* what the incoming order still wants: base quantity, or quote budget for a
\* market buy
InitialRemaining(o) ==
    IF o.kind = "market" /\ o.side = "buy" THEN o.quote_amount ELSE o.amount

\* every fill takes all the resting order has left
FillQty_maker_all(o, rem, p, makerRemaining) == makerRemaining

FillQty(o, rem, p, makerRemaining) ==
    IF o.kind = "market" /\ o.side = "buy"
    THEN Min(rem \div p, makerRemaining)
    ELSE Min(rem, makerRemaining)

OppositeSide(side) == IF side = "buy" THEN "sell" ELSE "buy"

RECURSIVE match_loop(_, _, _, _)
match_loop(o, rem, ob, acc) ==
    LET opp == SideOf(ob, OppositeSide(o.side))
        cands == {p \in Prices : opp[p] # <<>>}
        stop == [matches |-> acc, ob |-> ob, rem |-> rem]
    IN  IF rem = 0 \/ cands = {} THEN stop
        ELSE LET p == BestOpposite(o.side, cands)
                 maker == NextMaker(opp[p])
                 q == FillQty(o, rem, p, maker.remaining)
             IN  IF ~Crosses(o, p) \/ q = 0 THEN stop
                 ELSE match_loop(
                        o,
                        IF o.kind = "market" /\ o.side = "buy"
                        THEN rem - q * p ELSE rem - q,
                        reduce_or_remove(ob, maker.id, q),
                        Append(acc, [maker_id |-> maker.id,
                                     taker_id |-> o.id,
                                     price |-> FillPrice(o, p),
                                     amount |-> q]))

\* only the resting orders are updated in the book
match_order_makers_only(o, ob) ==
    LET r == match_loop(o, InitialRemaining(o), ob, <<>>)
    IN  [matches |-> r.matches, ob |-> r.ob]

\* the incoming limit order is already in the book (add_order ran first):
\* the order book update covers both orders of every match
match_order(o, ob) ==
    LET r == match_loop(o, InitialRemaining(o), ob, <<>>)
        filled == SeqSum([i \in 1..Len(r.matches) |-> r.matches[i].amount])
    IN  [matches |-> r.matches,
         ob |-> IF o.kind = "limit" /\ filled > 0
                THEN reduce_or_remove(r.ob, o.id, filled)
                ELSE r.ob]

\* ----------------------------------------------------------------- executor
\* the two outcomes exchanged
StatusAfterFill_swapped(amount, filled_amount) ==
    IF filled_amount = amount THEN "partial" ELSE "filled"

\* filled_amount equal to amount means completely filled
StatusAfterFill(amount, filled_amount) ==
    IF filled_amount = amount THEN "filled" ELSE "partial"

apply_fill(ord, price, q) ==
    [ord EXCEPT !.filled_amount = @ + q,
                !.filled_quote_amount = @ + price * q,
                !.status = StatusAfterFill(ord.amount, ord.filled_amount + q)]

BuyOrderId(m) ==
    IF orders[m.taker_id].side = "buy" THEN m.taker_id ELSE m.maker_id

SellOrderId(m) ==
    IF orders[m.taker_id].side = "buy" THEN m.maker_id ELSE m.taker_id

\* lock that a taker limit buy no longer needs once it filled below its limit
ExcessLock(ord, m) ==
    IF ord.kind = "limit" /\ ord.side = "buy" /\ ord.price > m.price
    THEN (ord.price - m.price) * m.amount ELSE 0

\* ---------------------------------------------------------------------- WAL
\* OrderCreated { order }, OrderCancelled { order_id }, TradeExecuted { trade }
WalEntry(type, id, trade_no, body) ==
    [seq |-> wal_seq + 1, type |-> type, order_id |-> id,
     trade_no |-> trade_no, body |-> body]

WalAll == wal_file \o wal_queue

\* ------------------------------------------------------------------- state
InitBalances ==
    [u \in Users |-> [a \in Assets |->
        [available |-> IF a = BASE THEN InitBase ELSE InitQuote,
         locked |-> 0]]]

Init ==
    /\ balances = InitBalances
    /\ orderbook = EmptyBook
    /\ orders = EmptyMap
    /\ trades = <<>>
    /\ order_queue = <<>>
    /\ replies = EmptyMap
    /\ wal_queue = <<>>
    /\ wal_file = <<>>
    /\ wal_synced = 0
    /\ wal_alive = TRUE
    /\ wal_seq = 0
    /\ next_id = 1
    /\ n_orders = 0
    /\ n_cancels = 0
    /\ pc = "idle"
    /\ cur = NoCmd
    /\ matches = <<>>
    /\ match_idx = 1
    /\ isRefreshing = FALSE
    /\ refreshPromise = 0
    /\ promises = [r \in 1..MaxRequests |-> "none"]
    /\ tokens = TRUE
    /\ requests = [r \in 1..MaxRequests |->
                      [pc |-> "new", retry |-> TRUE, accessToken |-> FALSE,
                       sends |-> 0, awaits |-> 0]]

engineVars == <<balances, orderbook, orders, trades, replies, wal_queue,
                wal_seq, pc, cur, matches, match_idx>>

walVars == <<wal_file, wal_synced, wal_alive>>

\* ------------------------------------------------------------------ callers
\* Engine::submit_order: build the command and send it to the engine thread
submit_order(u, side, kind, price, amount, quote_amount) ==
    /\ n_orders < MaxOrders
    /\ n_orders + n_cancels < MaxCommands
    /\ Len(order_queue) < MaxQueue
    /\ order_queue' = Append(order_queue,
          [type |-> "SubmitOrder", id |-> next_id, user |-> u, side |-> side,
           kind |-> kind, price |-> price, amount |-> amount,
           quote_amount |-> quote_amount])
    /\ next_id' = next_id + 1
    /\ n_orders' = n_orders + 1
    /\ UNCHANGED <<n_cancels, engineVars, walVars, clientVars>>

\* all accounts start with the same balances, so the very first command is
\* taken from one fixed account
Callers == IF next_id = 1 THEN {CHOOSE u \in Users : TRUE} ELSE Users

SubmitOrder ==
    \E u \in Callers :
        \/ \E side \in {"buy", "sell"}, p \in Prices, a \in Amounts :
               submit_order(u, side, "limit", p, a, 0)
        \/ \E a \in MarketAmounts : submit_order(u, "sell", "market", 0, a, 0)
        \/ \E qa \in QuoteAmounts : submit_order(u, "buy", "market", 0, 0, qa)

cancel_order(u, oid) ==
    /\ n_cancels < MaxCancels
    /\ n_orders + n_cancels < MaxCommands
    /\ Len(order_queue) < MaxQueue
    /\ order_queue' = Append(order_queue,
          [type |-> "CancelOrder", id |-> next_id, user |-> u,
           order_id |-> oid])
    /\ next_id' = next_id + 1
    /\ n_cancels' = n_cancels + 1
    /\ UNCHANGED <<n_orders, engineVars, walVars, clientVars>>

CancelOrder ==
    \E u \in Callers, oid \in 1..(next_id - 1) : cancel_order(u, oid)

\* -------------------------------------------------------------- engine loop
\* replies[id] is the state of the oneshot channel of command id: absent
\* while the caller waits, the result once it is sent, "Dropped" when the
\* caller gave up waiting and dropped its receiver
Dropped(id) == id \in DOMAIN replies /\ replies[id] = "Dropped"

IsError(result) == result \notin {"Ok", "Cancelled"}

\* response.send(result): a result for a caller that is gone is discarded;
\* an error for a caller that is gone is not sent here (see ReplyPanic)
Reply(id, result) ==
    /\ ~(Dropped(id) /\ IsError(result))
    /\ replies' = IF Dropped(id) THEN replies ELSE MapPut(replies, id, result)

WalSend(type, id, trade_no, body) ==
    /\ wal_alive
    /\ wal_queue' = Append(wal_queue, WalEntry(type, id, trade_no, body))
    /\ wal_seq' = wal_seq + 1

BackToIdle ==
    /\ pc' = "idle"
    /\ cur' = NoCmd
    /\ matches' = <<>>
    /\ match_idx' = 1

\* match cmd { SubmitOrder => .., CancelOrder => .., LockBalance => ..,
\* UnlockBalance => .. }
FirstStep(c) ==
    CASE c.type = "SubmitOrder" -> "lock"
      [] c.type = "CancelOrder" -> "cancel"
      [] c.type = "LockBalance" -> "ext_lock"
      [] c.type = "UnlockBalance" -> "ext_unlock"

\* the newest command is taken first
Recv_newest_first ==
    /\ pc = "idle"
    /\ order_queue # <<>>
    /\ cur' = order_queue[Len(order_queue)]
    /\ order_queue' = SubSeq(order_queue, 1, Len(order_queue) - 1)
    /\ pc' = FirstStep(order_queue[Len(order_queue)])
    /\ UNCHANGED <<balances, orderbook, orders, trades, replies, wal_queue,
                   wal_seq, matches, match_idx, next_id, n_orders, n_cancels,
                   walVars, clientVars>>

\* rx.recv(): take the next command off the channel
Recv ==
    /\ pc = "idle"
    /\ order_queue # <<>>
    /\ cur' = Head(order_queue)
    /\ order_queue' = Tail(order_queue)
    /\ pc' = FirstStep(Head(order_queue))
    /\ UNCHANGED <<balances, orderbook, orders, trades, replies, wal_queue,
                   wal_seq, matches, match_idx, next_id, n_orders, n_cancels,
                   walVars, clientVars>>

\* a sell locks the base asset, a buy the quote asset
LockAsset(o) == IF o.side = "sell" THEN BASE ELSE QUOTE

\* a limit buy locks its quantity, not price x quantity
LockAmount_quantity_only(o) ==
    IF o.side = "sell" \/ o.kind = "limit" THEN o.amount ELSE o.quote_amount

LockAmount(o) ==
    IF o.side = "sell" THEN o.amount
    ELSE IF o.kind = "limit" THEN o.price * o.amount ELSE o.quote_amount

NewOrder(o) ==
    [user |-> o.user, side |-> o.side, kind |-> o.kind, price |-> o.price,
     amount |-> o.amount, quote_amount |-> o.quote_amount,
     filled_amount |-> 0, filled_quote_amount |-> 0, status |-> "pending"]

\* balance check and lock; an order without funds is refused here
LockStep ==
    /\ pc = "lock"
    /\ IF has_available(balances, cur.user, LockAsset(cur), LockAmount(cur))
       THEN /\ balances' = lock_balance(balances, cur.user, LockAsset(cur),
                                        LockAmount(cur))
            /\ orders' = MapPut(orders, cur.id, NewOrder(cur))
            /\ pc' = "wal"
            /\ UNCHANGED <<replies, cur, matches, match_idx>>
       ELSE /\ Reply(cur.id, "InsufficientFunds")
            /\ BackToIdle
            /\ UNCHANGED <<balances, orders>>
    /\ UNCHANGED <<orderbook, trades, wal_queue, wal_seq, order_queue,
                   next_id, n_orders, n_cancels, walVars, clientVars>>

\* the order goes on without its OrderCreated entry
WalOrderCreated_not_sent ==
    /\ pc = "wal"
    /\ pc' = "add"
    /\ UNCHANGED <<balances, orderbook, orders, trades, replies, cur, matches,
                   match_idx, order_queue, next_id, n_orders, n_cancels,
                   wal_queue, wal_seq, walVars, clientVars>>

\* wal_tx.send(WalEntry::OrderCreated)
WalOrderCreated ==
    /\ pc = "wal"
    /\ WalSend("OrderCreated", cur.id, 0, cur)
    /\ pc' = "add"
    /\ UNCHANGED <<balances, orderbook, orders, trades, replies, cur, matches,
                   match_idx, order_queue, next_id, n_orders, n_cancels,
                   walVars, clientVars>>

\* orderbook.add_order(order.clone())
AddOrder ==
    /\ pc = "add"
    /\ orderbook' = add_order(orderbook, cur)
    /\ pc' = "match"
    /\ UNCHANGED <<balances, orders, trades, replies, wal_queue, wal_seq, cur,
                   matches, match_idx, order_queue, next_id, n_orders,
                   n_cancels, walVars, clientVars>>

\* matcher.match_order(&mut order, orderbook)
MatchOrder ==
    /\ pc = "match"
    /\ LET r == match_order(cur, orderbook)
       IN  /\ orderbook' = r.ob
           /\ matches' = r.matches
           /\ pc' = IF r.matches = <<>> THEN "finish" ELSE "settle"
    /\ match_idx' = 1
    /\ UNCHANGED <<balances, orders, trades, replies, wal_queue, wal_seq, cur,
                   order_queue, next_id, n_orders, n_cancels, walVars,
                   clientVars>>

\* executor.execute_trade, step 1: balance update
ExecuteSettle ==
    /\ pc = "settle"
    /\ LET m == matches[match_idx]
       IN  balances' = settle_fill(balances, orders[BuyOrderId(m)].user,
                                   orders[SellOrderId(m)].user, m.price,
                                   m.amount)
    /\ pc' = "record"
    /\ UNCHANGED <<orderbook, orders, trades, replies, wal_queue, wal_seq, cur,
                   matches, match_idx, order_queue, next_id, n_orders,
                   n_cancels, walVars, clientVars>>

NewTrade(m) ==
    [buy_order_id |-> BuyOrderId(m), sell_order_id |-> SellOrderId(m),
     buyer_id |-> orders[BuyOrderId(m)].user,
     seller_id |-> orders[SellOrderId(m)].user,
     price |-> m.price, amount |-> m.amount]

\* the trade is executed but no TradeExecuted entry is sent
ExecuteRecord_no_wal ==
    /\ pc = "record"
    /\ LET m == matches[match_idx]
           excess == ExcessLock(orders[m.taker_id], m)
       IN  /\ orders' = [orders EXCEPT
                  ![m.maker_id] = apply_fill(@, m.price, m.amount),
                  ![m.taker_id] = apply_fill(@, m.price, m.amount)]
           /\ trades' = Append(trades, NewTrade(m))
           /\ balances' = IF excess > 0
                          THEN unlock_balance(balances,
                                   orders[m.taker_id].user, QUOTE, excess)
                          ELSE balances
    /\ match_idx' = match_idx + 1
    /\ pc' = IF match_idx < Len(matches) THEN "settle" ELSE "finish"
    /\ UNCHANGED <<orderbook, replies, cur, matches, order_queue, next_id,
                   n_orders, n_cancels, wal_queue, wal_seq, walVars,
                   clientVars>>

\* executor.execute_trade, steps 2 and 3: order status update, Trade object,
\* WalEntry::TradeExecuted; a buy filled below its limit gets the difference
\* back
ExecuteRecord ==
    /\ pc = "record"
    /\ LET m == matches[match_idx]
           buy == BuyOrderId(m)
           sell == SellOrderId(m)
           excess == ExcessLock(orders[m.taker_id], m)
       IN  /\ orders' = [orders EXCEPT
                  ![m.maker_id] = apply_fill(@, m.price, m.amount),
                  ![m.taker_id] = apply_fill(@, m.price, m.amount)]
           /\ trades' = Append(trades, NewTrade(m))
           /\ WalSend("TradeExecuted", m.taker_id, Len(trades) + 1,
                      NewTrade(m))
           /\ balances' = IF excess > 0
                          THEN unlock_balance(balances,
                                   orders[m.taker_id].user, QUOTE, excess)
                          ELSE balances
    /\ match_idx' = match_idx + 1
    /\ pc' = IF match_idx < Len(matches) THEN "settle" ELSE "finish"
    /\ UNCHANGED <<orderbook, replies, cur, matches, order_queue, next_id,
                   n_orders, n_cancels, walVars, clientVars>>

\* what a market order could not fill is given up and its lock released
MarketRemainder(ord) ==
    IF ord.kind # "market" THEN 0
    ELSE IF ord.side = "buy" THEN ord.quote_amount - ord.filled_quote_amount
    ELSE ord.amount - ord.filled_amount

FinalStatus(ord) ==
    IF ord.kind # "market" THEN ord.status
    ELSE IF ord.filled_amount = 0 THEN "cancelled"
    ELSE IF ord.side = "buy" THEN "filled"
    ELSE IF ord.filled_amount = ord.amount THEN "filled" ELSE "cancelled"

\* no separate outcome for a market order that found nothing
SubmitResult_always_ok(ord) == "Ok"

SubmitResult(ord) ==
    IF ord.kind = "market" /\ ord.filled_amount = 0 THEN "NoLiquidity"
    ELSE "Ok"

\* end of a SubmitOrder command: a market order gives up what it could not
\* fill
FinishOrder ==
    LET ord == orders[cur.id]
        rest == MarketRemainder(ord)
    IN  /\ balances' = IF rest > 0
                       THEN unlock_balance(balances, ord.user,
                                           LockAsset(ord), rest)
                       ELSE balances
        /\ orders' = [orders EXCEPT ![cur.id].status = FinalStatus(ord)]

\* the command is finished without an answer to its caller
Finish_no_reply ==
    /\ pc = "finish"
    /\ FinishOrder
    /\ BackToIdle
    /\ UNCHANGED <<orderbook, trades, replies, wal_queue, wal_seq,
                   order_queue, next_id, n_orders, n_cancels, walVars,
                   clientVars>>

\* result back to the caller over its oneshot channel
Finish ==
    /\ pc = "finish"
    /\ FinishOrder
    /\ Reply(cur.id, SubmitResult(orders[cur.id]))
    /\ BackToIdle
    /\ UNCHANGED <<orderbook, trades, wal_queue, wal_seq, order_queue,
                   next_id, n_orders, n_cancels, walVars, clientVars>>

\* a cancelled order still counts as open
IsTerminal_filled_only(status) == status = "filled"

IsTerminal(status) == status \in {"filled", "cancelled"}

\* the owner is not compared with the caller
CancelError_no_owner_check(c) ==
    IF c.order_id \notin DOMAIN orders THEN "NotFound"
    ELSE IF IsTerminal(orders[c.order_id].status) THEN "AlreadyTerminal"
    ELSE "none"

CancelError(c) ==
    IF c.order_id \notin DOMAIN orders THEN "NotFound"
    ELSE IF orders[c.order_id].user # c.user THEN "NotOwner"
    ELSE IF IsTerminal(orders[c.order_id].status) THEN "AlreadyTerminal"
    ELSE "none"

\* CancelOrder: ownership check, then WalEntry::OrderCancelled
CancelCheck ==
    /\ pc = "cancel"
    /\ IF CancelError(cur) = "none"
       THEN /\ WalSend("OrderCancelled", cur.order_id, 0, NoCmd)
            /\ pc' = "cancel_apply"
            /\ UNCHANGED <<replies, cur, matches, match_idx>>
       ELSE /\ Reply(cur.id, CancelError(cur))
            /\ BackToIdle
            /\ UNCHANGED <<wal_queue, wal_seq>>
    /\ UNCHANGED <<balances, orderbook, orders, trades, order_queue, next_id,
                   n_orders, n_cancels, walVars, clientVars>>

\* what is still locked for a resting order
RemainingLock(e) ==
    IF e.side = "sell" THEN e.remaining ELSE e.price * e.remaining

\* CancelOrder: remove from the book, release the lock, reply
CancelApply ==
    /\ pc = "cancel_apply"
    /\ LET e == orderbook.orders_by_id[cur.order_id]
       IN  /\ orderbook' = remove_order(orderbook, cur.order_id)
           /\ balances' = unlock_balance(balances, e.user, LockAsset(e),
                                         RemainingLock(e))
           /\ orders' = [orders EXCEPT ![cur.order_id].status = "cancelled"]
    /\ Reply(cur.id, "Cancelled")
    /\ BackToIdle
    /\ UNCHANGED <<trades, wal_queue, wal_seq, order_queue, next_id, n_orders,
                   n_cancels, walVars, clientVars>>

\* ---------------------------------------------------------------- WAL thread
\* wal_writer.append(&entry), with an fsync every SyncEvery entries
WalAppend ==
    /\ wal_alive
    /\ wal_queue # <<>>
    /\ wal_file' = Append(wal_file, Head(wal_queue))
    /\ wal_queue' = Tail(wal_queue)
    /\ wal_synced' = IF Len(wal_file) + 1 - wal_synced >= SyncEvery
                     THEN Len(wal_file) + 1 ELSE wal_synced
    /\ UNCHANGED <<balances, orderbook, orders, trades, replies, wal_seq, pc,
                   cur, matches, match_idx, order_queue, next_id, n_orders,
                   n_cancels, wal_alive, clientVars>>

\* WalWriter::new (before anything was sent) or wal_writer.append (of a
\* received entry) returns an error: the WAL thread returns and drops its
\* receiver; what it has not written stays unwritten
WalThreadExit ==
    /\ wal_alive
    /\ wal_queue # <<>> \/ wal_seq = 0
    /\ wal_alive' = FALSE
    /\ UNCHANGED <<balances, orderbook, orders, trades, replies, wal_queue,
                   wal_seq, pc, cur, matches, match_idx, order_queue, next_id,
                   n_orders, n_cancels, wal_file, wal_synced, clientVars>>

\* the engine is about to send the WAL entry of the current command
SendsCommandEntry ==
    \/ pc = "wal"
    \/ pc = "cancel" /\ CancelError(cur) = "none"

\* wal_tx.send(..).unwrap() on a channel whose receiver is gone: the engine
\* thread panics and processes nothing more
WalSendPanic ==
    /\ ~wal_alive
    /\ SendsCommandEntry \/ pc = "record"
    /\ pc' = "panicked"
    /\ UNCHANGED <<balances, orderbook, orders, trades, replies, wal_queue,
                   wal_seq, cur, matches, match_idx, order_queue, next_id,
                   n_orders, n_cancels, walVars, clientVars>>

Next ==
    \/ SubmitOrder
    \/ CancelOrder
    \/ Recv
    \/ LockStep
    \/ WalOrderCreated
    \/ AddOrder
    \/ MatchOrder
    \/ ExecuteSettle
    \/ ExecuteRecord
    \/ Finish
    \/ CancelCheck
    \/ CancelApply
    \/ WalAppend

Spec == Init /\ [][Next]_vars

\* the same program with a WAL thread that can fail
NextWalFail ==
    \/ Next
    \/ WalThreadExit
    \/ WalSendPanic

SpecWalFail == Init /\ [][NextWalFail]_vars

\* the same program under a steady flow of small limit orders at one price,
\* long enough for the WAL writer to reach its fsync (every SyncEvery entries)
SteadyOrder(u, side) ==
    /\ n_orders < SteadyOrders
    /\ Len(order_queue) < MaxQueue
    /\ order_queue' = Append(order_queue,
          [type |-> "SubmitOrder", id |-> next_id, user |-> u, side |-> side,
           kind |-> "limit", price |-> 1, amount |-> SteadyAmount,
           quote_amount |-> 0])
    /\ next_id' = next_id + 1
    /\ n_orders' = n_orders + 1
    /\ UNCHANGED <<n_cancels, engineVars, walVars, clientVars>>

SteadySell == SteadyOrder("A", "sell")

SteadyBuy == SteadyOrder("B", "buy")

NextSteady ==
    \/ SteadySell
    \/ SteadyBuy
    \/ Recv
    \/ LockStep
    \/ WalOrderCreated
    \/ AddOrder
    \/ MatchOrder
    \/ ExecuteSettle
    \/ ExecuteRecord
    \/ Finish
    \/ WalAppend

SpecCrash == Init /\ [][NextSteady]_vars

\* a caller stops waiting for its reply (timeout on rx) and drops the receiver
Abandon(c) ==
    /\ c \notin DOMAIN replies
    /\ replies' = MapPut(replies, c, "Dropped")
    /\ UNCHANGED <<balances, orderbook, orders, trades, wal_queue, wal_seq, pc,
                   cur, matches, match_idx, order_queue, next_id, n_orders,
                   n_cancels, walVars, clientVars>>

AbandonReply ==
    /\ Cardinality({c \in DOMAIN replies : Dropped(c)}) < MaxAbandons
    /\ \E c \in 1..(next_id - 1) : Abandon(c)

\* the engine is about to answer the current command with an error
SendsErrorReply ==
    \/ pc = "lock" /\ ~has_available(balances, cur.user, LockAsset(cur),
                                     LockAmount(cur))
    \/ pc = "cancel" /\ CancelError(cur) # "none"
    \/ pc = "finish" /\ IsError(SubmitResult(orders[cur.id]))

\* response_tx.send(Err(error)).unwrap() on a channel whose receiver is gone:
\* the engine thread panics and processes nothing more
ReplyPanic ==
    /\ SendsErrorReply
    /\ Dropped(cur.id)
    /\ IF pc = "finish" THEN FinishOrder ELSE UNCHANGED <<balances, orders>>
    /\ pc' = "panicked"
    /\ UNCHANGED <<orderbook, trades, replies, wal_queue, wal_seq, cur,
                   matches, match_idx, order_queue, next_id, n_orders,
                   n_cancels, walVars, clientVars>>

\* the steady flow with callers that can give up waiting
NextAbandon ==
    \/ NextSteady
    \/ AbandonReply
    \/ ReplyPanic

SpecAbandon == Init /\ [][NextAbandon]_vars

\* OrderCommand::LockBalance / UnlockBalance: a reservation asked for from
\* outside the order flow
balance_command(type, u, a, amt) ==
    /\ next_id - 1 - n_orders - n_cancels < MaxTransfers
    /\ Len(order_queue) < MaxQueue
    /\ order_queue' = Append(order_queue,
          [type |-> type, id |-> next_id, user |-> u, mint |-> a,
           amount |-> amt])
    /\ next_id' = next_id + 1
    /\ UNCHANGED <<n_orders, n_cancels, engineVars, walVars, clientVars>>

LockBalance == balance_command("LockBalance", "A", BASE, SteadyAmount)

UnlockBalance == balance_command("UnlockBalance", "A", BASE, SteadyAmount)

LockBalanceStep ==
    /\ pc = "ext_lock"
    /\ IF has_available(balances, cur.user, cur.mint, cur.amount)
       THEN /\ balances' = lock_balance(balances, cur.user, cur.mint,
                                        cur.amount)
            /\ Reply(cur.id, "Ok")
       ELSE /\ Reply(cur.id, "InsufficientFunds")
            /\ UNCHANGED balances
    /\ BackToIdle
    /\ UNCHANGED <<orderbook, orders, trades, wal_queue, wal_seq, order_queue,
                   next_id, n_orders, n_cancels, walVars, clientVars>>

\* the precondition of a release is not checked
release_ok_unchecked(bal, u, a, amt) == TRUE

\* release(account, asset, amount) needs locked >= amount
release_ok(bal, u, a, amt) == bal[u][a].locked >= amt

\* a release of more than is locked is a bookkeeping error: nothing is
\* changed and the engine stops
UnlockBalanceStep ==
    /\ pc = "ext_unlock"
    /\ IF release_ok(balances, cur.user, cur.mint, cur.amount)
       THEN /\ balances' = unlock_balance(balances, cur.user, cur.mint,
                                          cur.amount)
            /\ Reply(cur.id, "Ok")
            /\ BackToIdle
       ELSE /\ pc' = "halted"
            /\ UNCHANGED <<balances, replies, cur, matches, match_idx>>
    /\ UNCHANGED <<orderbook, orders, trades, wal_queue, wal_seq, order_queue,
                   next_id, n_orders, n_cancels, walVars, clientVars>>

\* resting buy orders of one account, reservations of the other
NextHalt ==
    \/ SteadyBuy
    \/ LockBalance
    \/ UnlockBalance
    \/ Recv
    \/ LockStep
    \/ WalOrderCreated
    \/ AddOrder
    \/ MatchOrder
    \/ Finish
    \/ LockBalanceStep
    \/ UnlockBalanceStep
    \/ WalAppend

SpecHalt == Init /\ [][NextHalt]_vars

\* one step of the engine thread: the thread runs on its own core and is
\* never suspended for good
EngineStep ==
    \/ Recv
    \/ LockStep
    \/ WalOrderCreated
    \/ AddOrder
    \/ MatchOrder
    \/ ExecuteSettle
    \/ ExecuteRecord
    \/ Finish
    \/ CancelCheck
    \/ CancelApply

\* a short flow of orders and cancels
LiveSell == next_id <= MaxLiveCommands /\ SteadySell

LiveBuy == next_id <= MaxLiveCommands /\ SteadyBuy

LiveCancel == next_id <= MaxLiveCommands /\ CancelOrder

NextLive ==
    \/ LiveSell
    \/ LiveBuy
    \/ LiveCancel
    \/ EngineStep
    \/ WalAppend

\* the short flow with an engine thread that keeps being scheduled
SpecLive == Init /\ [][NextLive]_vars /\ WF_vars(EngineStep)

\* --------------------------------------------------------------- web client
\* ApiClient.request up to its fetch: the access token is read, the request
\* is sent
Send(r, retry) ==
    requests' = [requests EXCEPT ![r] =
        [pc |-> "fetching", retry |-> retry, accessToken |-> tokens,
         sends |-> @.sends + 1, awaits |-> 0]]

request(r) ==
    /\ requests[r].pc = "new"
    /\ Send(r, TRUE)
    /\ UNCHANGED <<isRefreshing, refreshPromise, promises, tokens, serverVars>>

Request == \E r \in 1..MaxRequests : request(r)

\* a 401 always starts a refresh of its own
RefreshInProgress_never == FALSE

\* if (this.isRefreshing && this.refreshPromise)
RefreshInProgress == isRefreshing /\ refreshPromise # 0

\* the response of the fetch arrives. A 401 for a first attempt that carried
\* a token waits for the refresh in progress, or starts one:
\* refreshAccessToken() runs up to its fetch, or throws at once without a
\* refresh token
response(r, status) ==
    /\ requests[r].pc = "fetching"
    /\ IF status = 401 /\ requests[r].retry /\ requests[r].accessToken
       THEN IF RefreshInProgress
            THEN /\ requests' = [requests EXCEPT ![r].pc = "waiting",
                                                 ![r].awaits = refreshPromise]
                 /\ UNCHANGED <<isRefreshing, refreshPromise, promises>>
            ELSE /\ isRefreshing' = TRUE
                 /\ refreshPromise' = r
                 /\ promises' = [promises EXCEPT ![r] =
                                    IF tokens THEN "pending" ELSE "rejected"]
                 /\ requests' = [requests EXCEPT ![r].pc = "refreshing",
                                                 ![r].awaits = r]
       ELSE /\ requests' = [requests EXCEPT ![r].pc =
                               IF status = 200 THEN "done" ELSE "failed"]
            /\ UNCHANGED <<isRefreshing, refreshPromise, promises>>
    /\ UNCHANGED <<tokens, serverVars>>

Response == \E r \in 1..MaxRequests, status \in {200, 401, 500} :
                response(r, status)

\* refreshAccessToken after its fetch: new tokens are stored, or the tokens
\* are cleared and the promise is rejected
refreshAccessToken(p, ok) ==
    /\ promises[p] = "pending"
    /\ promises' = [promises EXCEPT ![p] = IF ok THEN "resolved" ELSE "rejected"]
    /\ tokens' = ok
    /\ UNCHANGED <<isRefreshing, refreshPromise, requests, serverVars>>

RefreshResponse == \E p \in 1..MaxRequests, ok \in BOOLEAN :
                       refreshAccessToken(p, ok)

\* await this.refreshPromise returns in a request that waited for another
\* request's refresh: it is sent again with retry = false, or fails with the
\* refresh
resume_waiting(r) ==
    /\ requests[r].pc = "waiting"
    /\ promises[requests[r].awaits] # "pending"
    /\ IF promises[requests[r].awaits] = "resolved"
       THEN Send(r, FALSE)
       ELSE requests' = [requests EXCEPT ![r].pc = "failed"]
    /\ UNCHANGED <<isRefreshing, refreshPromise, promises, tokens, serverVars>>

ResumeWaiting == \E r \in 1..MaxRequests : resume_waiting(r)

\* await this.refreshPromise returns in the request that started the
\* refresh: it is sent again with retry = false, or fails; finally
\* isRefreshing = false and refreshPromise = null
resume_refreshing(r) ==
    /\ requests[r].pc = "refreshing"
    /\ promises[r] # "pending"
    /\ IF promises[r] = "resolved"
       THEN Send(r, FALSE)
       ELSE requests' = [requests EXCEPT ![r].pc = "failed"]
    /\ isRefreshing' = FALSE
    /\ refreshPromise' = 0
    /\ UNCHANGED <<promises, tokens, serverVars>>

ResumeRefreshing == \E r \in 1..MaxRequests : resume_refreshing(r)

NextClient ==
    \/ Request
    \/ Response
    \/ RefreshResponse
    \/ ResumeWaiting
    \/ ResumeRefreshing

SpecClient == Init /\ [][NextClient]_vars

\* --------------------------------------------------------------- properties
TypeOK ==
    /\ pc \in {"idle", "lock", "wal", "add", "match", "settle", "record",
               "finish", "cancel", "cancel_apply", "panicked", "ext_lock",
               "ext_unlock", "halted"}
    /\ wal_synced <= Len(wal_file)

\* ------------------------------------------------------ derived quantities
RECURSIVE SumOver(_, _)
SumOver(S, a) ==
    IF S = {} THEN 0
    ELSE LET u == CHOOSE x \in S : TRUE
         IN  balances[u][a].available + balances[u][a].locked
                 + SumOver(S \ {u}, a)

Total(a) == SumOver(Users, a)

InitTotal(a) ==
    Cardinality(Users) * (IF a = BASE THEN InitBase ELSE InitQuote)

\* fee taken out of asset a by a fill of quantity q at price p
FillFee(a, p, q) == IF a = BASE THEN Fee(q) ELSE Fee(p * q)

\* fees taken so far: recorded trades, plus the fill settled but not yet
\* recorded
FeesCharged(a) ==
    SeqSum([i \in 1..Len(trades) |->
               FillFee(a, trades[i].price, trades[i].amount)])
    + (IF pc = "record"
       THEN FillFee(a, matches[match_idx].price, matches[match_idx].amount)
       ELSE 0)

\* the resting order of a trade is the one that arrived first
MakerId(t) == Min(t.buy_order_id, t.sell_order_id)

TakerId(t) ==
    IF t.buy_order_id = MakerId(t) THEN t.sell_order_id ELSE t.buy_order_id

\* ------------------------------------------------------------- WAL replay
\* state rebuilt by replay; open is the market order whose fills are still
\* being read
ReplayInit ==
    [balances |-> InitBalances, orderbook |-> EmptyBook, orders |-> EmptyMap,
     trades |-> <<>>, open |-> 0]

\* OrderCreated: the insert path (lock, order record, add_order)
replay_created(s, o) ==
    [s EXCEPT !.balances = lock_balance(@, o.user, LockAsset(o), LockAmount(o)),
              !.orders = MapPut(@, o.id, NewOrder(o)),
              !.orderbook = add_order(@, o),
              !.open = IF o.kind = "market" THEN o.id ELSE 0]

\* OrderCancelled: the cancel path (remove_order, release of the lock)
replay_cancelled(s, id) ==
    LET e == s.orderbook.orders_by_id[id]
    IN  [s EXCEPT !.balances = unlock_balance(@, e.user, LockAsset(e),
                                              RemainingLock(e)),
                  !.orderbook = remove_order(@, id),
                  !.orders[id].status = "cancelled"]

\* TradeExecuted: the fill path (settle_fill, order updates, book update)
replay_trade(s, t) ==
    LET maker == MakerId(t)
        taker == TakerId(t)
        m == [price |-> t.price, amount |-> t.amount]
        excess == ExcessLock(s.orders[taker], m)
        settled == settle_fill(s.balances, t.buyer_id, t.seller_id, t.price,
                               t.amount)
        ob1 == reduce_or_remove(s.orderbook, maker, t.amount)
    IN  [s EXCEPT !.balances = IF excess > 0
                               THEN unlock_balance(settled,
                                        s.orders[taker].user, QUOTE, excess)
                               ELSE settled,
                  !.orders = [@ EXCEPT
                      ![maker] = apply_fill(@, t.price, t.amount),
                      ![taker] = apply_fill(@, t.price, t.amount)],
                  !.orderbook = IF s.orders[taker].kind = "limit"
                                THEN reduce_or_remove(ob1, taker, t.amount)
                                ELSE ob1,
                  !.trades = Append(@, t)]

\* a market order is finished once its fills have been read: the unfilled
\* portion is given up
replay_close(s) ==
    IF s.open = 0 THEN s
    ELSE LET ord == s.orders[s.open]
             rest == MarketRemainder(ord)
         IN  [s EXCEPT !.balances = IF rest > 0
                                    THEN unlock_balance(@, ord.user,
                                             LockAsset(ord), rest)
                                    ELSE @,
                       !.orders[s.open].status = FinalStatus(ord),
                       !.open = 0]

replay_entry(s, e) ==
    IF e.type = "OrderCreated" THEN replay_created(s, e.body)
    ELSE IF e.type = "OrderCancelled" THEN replay_cancelled(s, e.order_id)
    ELSE replay_trade(s, e.body)

\* replay the log: each entry in sequence order is applied again to memory
RECURSIVE replay(_, _)
replay(s, wal) ==
    IF wal = <<>> THEN replay_close(s)
    ELSE LET e == Head(wal)
             s1 == IF e.type = "TradeExecuted" /\ TakerId(e.body) = s.open
                   THEN s ELSE replay_close(s)
         IN  replay(replay_entry(s1, e), Tail(wal))

AllLevelEntries(ob) ==
    {<<side, p, i>> \in {"buy", "sell"} \X Prices \X (1..MaxOrders + MaxCancels) :
        i <= Len(SideOf(ob, side)[p])}

EntryAt(ob, x) == SideOf(ob, x[1])[x[2]][x[3]]

MakerPriceInvariant ==
    /\ \A i \in 1..Len(trades) :
           trades[i].price = orders[MakerId(trades[i])].price
    /\ \A k \in 1..Len(matches) :
           matches[k].price = orders[matches[k].maker_id].price

WitnessTakerPriceDiffers ==
    /\ \E i \in 1..Len(trades) :
           /\ orders[TakerId(trades[i])].kind = "limit"
           /\ orders[TakerId(trades[i])].price # trades[i].price
    /\ \E i \in 1..Len(trades) : orders[TakerId(trades[i])].kind = "market"

SamePriceLevel(i, j) ==
    /\ orders[i].kind = "limit" /\ orders[j].kind = "limit"
    /\ orders[i].side = orders[j].side
    /\ orders[i].price = orders[j].price

\* C4: among orders resting at the same price on the same side, a
\* later-arrived order receives a fill only after every earlier-arrived one
\* has been completely filled or removed.
TimePriority ==
    \A i, j \in DOMAIN orders :
        (i < j /\ SamePriceLevel(i, j) /\ orders[j].filled_amount > 0)
            => IsTerminal(orders[i].status)

WitnessTwoMakersFilledInOrder ==
    \E i, j \in DOMAIN orders :
        /\ i < j /\ SamePriceLevel(i, j)
        /\ orders[i].status = "filled"
        /\ orders[j].filled_amount > 0
        /\ \E t \in 1..Len(trades) :
               MakerId(trades[t]) = j /\ TakerId(trades[t]) > j

Better(takerSide, p1, p2) == IF takerSide = "buy" THEN p1 < p2 ELSE p1 > p2

\* C5: an incoming buy is matched against asks in ascending price order and
\* an incoming sell against bids in descending price order; no resting order
\* at a worse price is filled while one at a strictly better price on that
\* side still has remaining quantity.
PricePriority ==
    \A k \in 1..Len(matches) :
        LET p == orders[matches[k].maker_id].price
        IN  /\ \A id \in DOMAIN orderbook.orders_by_id :
                   LET e == orderbook.orders_by_id[id]
                   IN  (e.side = OppositeSide(cur.side) /\ e.remaining > 0)
                           => ~Better(cur.side, e.price, p)
            /\ \A l \in 1..Len(matches) :
                   k < l => ~Better(cur.side,
                                    orders[matches[l].maker_id].price, p)

WitnessTwoPriceLevelsMatched ==
    /\ Len(matches) >= 2
    /\ orders[matches[1].maker_id].price # orders[matches[2].maker_id].price

\* C6: a fill between two limit orders occurs only if buy limit >= sell
\* limit; no limit buy fills above its limit, no limit sell below its limit.
CrossingRule ==
    \A i \in 1..Len(trades) :
        LET t == trades[i]
            b == orders[t.buy_order_id]
            s == orders[t.sell_order_id]
        IN  /\ b.kind = "limit" => t.price <= b.price
            /\ s.kind = "limit" => t.price >= s.price
            /\ (b.kind = "limit" /\ s.kind = "limit") => b.price >= s.price

WitnessLimitsCrossStrictly ==
    \E i \in 1..Len(trades) :
        /\ orders[trades[i].buy_order_id].kind = "limit"
        /\ orders[trades[i].sell_order_id].kind = "limit"
        /\ orders[trades[i].buy_order_id].price
               > orders[trades[i].sell_order_id].price

Occurrences(ob, id) ==
    {x \in AllLevelEntries(ob) : EntryAt(ob, x).id = id}

\* C8: between commands, every order id in the id-lookup is in exactly one
\* price level on exactly one side with remaining quantity > 0, every order
\* held in a price level is in the id-lookup, and no filled or cancelled
\* order is in either structure.
BookStructure ==
    pc = "idle" =>
        /\ \A id \in DOMAIN orderbook.orders_by_id :
               LET e == orderbook.orders_by_id[id]
               IN  /\ e.remaining > 0
                   /\ Cardinality(Occurrences(orderbook, id)) = 1
                   /\ \A x \in Occurrences(orderbook, id) :
                          /\ x[1] = e.side /\ x[2] = e.price
                          /\ EntryAt(orderbook, x).remaining > 0
        /\ \A x \in AllLevelEntries(orderbook) :
               EntryAt(orderbook, x).id \in DOMAIN orderbook.orders_by_id
        /\ \A id \in DOMAIN orders :
               IsTerminal(orders[id].status) =>
                   /\ id \notin DOMAIN orderbook.orders_by_id
                   /\ Occurrences(orderbook, id) = {}

WitnessBookAfterFillAndCancel ==
    /\ pc = "idle"
    /\ \E id \in DOMAIN orderbook.orders_by_id :
           orderbook.orders_by_id[id].remaining < orders[id].amount
    /\ \E id \in DOMAIN orders : orders[id].status = "filled"
    /\ \E id \in DOMAIN orders : orders[id].status = "cancelled"

StatusStep(s, t) ==
    \/ s = t
    \/ s = "pending" /\ t \in {"partial", "filled", "cancelled"}
    \/ s = "partial" /\ t \in {"filled", "cancelled"}

\* C9: an order's status only moves pending -> {partial, filled, cancelled}
\* or partial -> {filled, cancelled}; once filled or cancelled, no later
\* command changes its status, filled quantity or filled notional.
StatusMonotonic ==
    [][\A id \in DOMAIN orders :
           /\ id \in DOMAIN orders'
           /\ StatusStep(orders[id].status, orders'[id].status)
           /\ IsTerminal(orders[id].status) => orders'[id] = orders[id]
      ]_vars

WitnessTerminalOrderTargeted ==
    /\ \E c \in DOMAIN replies : replies[c] = "AlreadyTerminal"
    /\ \E id \in DOMAIN orders :
           orders[id].status = "filled" /\ orders[id].kind = "limit"
               /\ \E t \in 1..Len(trades) : MakerId(trades[t]) > id

\* the WAL entry of the command being processed has been handed to the log
CommandLogged ==
    \E i \in 1..Len(WalAll) :
        \/ cur.type = "SubmitOrder" /\ WalAll[i].type = "OrderCreated"
               /\ WalAll[i].order_id = cur.id
        \/ cur.type = "CancelOrder" /\ WalAll[i].type = "OrderCancelled"
               /\ WalAll[i].order_id = cur.order_id

\* C10: the WAL entry of every state-changing command is handed to the log
\* before the order book or the balance ledger is changed for it, and the
\* result is returned only after both.
TradeLogged ==
    \E i \in 1..Len(WalAll) :
        WalAll[i].type = "TradeExecuted" /\ WalAll[i].trade_no = Len(trades) + 1

WriteAheadOrdering ==
    [][/\ (balances' # balances \/ orderbook' # orderbook) => CommandLogged
       /\ (pc = "settle" /\ balances' # balances) => TradeLogged
       /\ (\E c \in DOMAIN replies' \ DOMAIN replies :
               replies'[c] \in {"Ok", "NoLiquidity", "Cancelled"})
              => CommandLogged
      ]_vars

WalFailureAborts ==
    [][/\ (~wal_alive /\ SendsCommandEntry /\ pc' # pc) =>
              /\ pc' = "idle"
              /\ cur.id \in DOMAIN replies'
              /\ replies'[cur.id] = "SystemError"
              /\ UNCHANGED <<balances, orderbook, orders>>
              /\ cur.type = "SubmitOrder" => cur.id \notin DOMAIN orders
       /\ (balances' # balances \/ orderbook' # orderbook
               \/ orders' # orders) => CommandLogged
      ]_vars

\* C13: CancelOrder on an order that is already cancelled or filled is
\* answered with AlreadyTerminal or NotFound (NotOwner for a foreign caller),
\* never with success, and changes no balance; a cancel releases funds only
\* for an order that is not yet terminal, so at most once per order.
CancelIdempotent ==
    [][/\ (pc = "cancel" /\ pc' # "cancel" /\ cur.order_id \in DOMAIN orders
              /\ orders[cur.order_id].status \in {"filled", "cancelled"}) =>
              /\ cur.id \in DOMAIN replies'
              /\ replies'[cur.id] \in {"AlreadyTerminal", "NotFound", "NotOwner"}
              /\ orders[cur.order_id].user = cur.user =>
                     replies'[cur.id] \in {"AlreadyTerminal", "NotFound"}
              /\ UNCHANGED <<balances, orders, orderbook>>
       /\ (pc = "cancel_apply" /\ pc' # "cancel_apply") =>
              /\ orders[cur.order_id].status \in {"pending", "partial"}
              /\ orders'[cur.order_id].status = "cancelled"
      ]_vars

WitnessCancelledTwice ==
    /\ Cardinality(DOMAIN orders) = 1
    /\ \A id \in DOMAIN orders :
           orders[id].kind = "limit" /\ orders[id].status = "cancelled"
    /\ \E c \in DOMAIN replies : replies[c] = "Cancelled"
    /\ \E c \in DOMAIN replies : replies[c] = "AlreadyTerminal"

\* C14: a successful CancelOrder removes the order from the book and moves
\* exactly what is still locked for it (remaining quantity for a sell,
\* price * remaining quantity for a buy) from the owner's locked to the
\* owner's available balance; every other balance is unchanged.
CancelReleasesRemaining ==
    [][(pc = "cancel_apply" /\ pc' # "cancel_apply") =>
          LET id == cur.order_id
              o == orders[id]
              asset == IF o.side = "sell" THEN BASE ELSE QUOTE
              rem == o.amount - o.filled_amount
              amt == IF o.side = "sell" THEN rem ELSE o.price * rem
          IN  /\ amt > 0
              /\ id \notin DOMAIN orderbook'.orders_by_id
              /\ Occurrences(orderbook', id) = {}
              /\ balances'[o.user][asset].locked
                     = balances[o.user][asset].locked - amt
              /\ balances'[o.user][asset].available
                     = balances[o.user][asset].available + amt
              /\ \A u \in Users, a \in Assets :
                     (u # o.user \/ a # asset) =>
                         balances'[u][a] = balances[u][a]
              /\ cur.id \in DOMAIN replies' /\ replies'[cur.id] = "Cancelled"
      ]_vars

WitnessPartialOrderCancelled ==
    /\ \E id \in DOMAIN orders :
           /\ orders[id].kind = "limit"
           /\ orders[id].status = "cancelled"
           /\ orders[id].filled_amount > 0
    /\ \E c \in DOMAIN replies : replies[c] = "Cancelled"

\* C15: CancelOrder by an account that does not own the order is answered
\* NotOwner and leaves the order, the book, all balances and the WAL
\* unchanged; the check comes before the WAL append.
CancelOwnership ==
    [][(pc = "cancel" /\ pc' # "cancel" /\ cur.order_id \in DOMAIN orders
          /\ orders[cur.order_id].user # cur.user) =>
          /\ cur.id \in DOMAIN replies' /\ replies'[cur.id] = "NotOwner"
          /\ UNCHANGED <<orders, orderbook, balances, wal_queue, wal_file,
                         wal_seq>>
      ]_vars

WitnessForeignCancelRefused ==
    /\ \E c \in DOMAIN replies : replies[c] = "NotOwner"
    /\ Cardinality(DOMAIN orders) = 1
    /\ \A id \in DOMAIN orders :
           orders[id].status = "pending"
               /\ id \in DOMAIN orderbook.orders_by_id

\* C16: reserving with available < amount answers InsufficientFunds and
\* changes neither available nor locked, nor the book; otherwise available
\* goes down and locked goes up by exactly the amount and nothing else in
\* the ledger changes.
AtomicReservation ==
    [][(pc = "lock" /\ pc' # "lock") =>
          LET u == cur.user
              a == IF cur.side = "sell" THEN BASE ELSE QUOTE
              amt == IF cur.side = "sell" THEN cur.amount
                     ELSE IF cur.kind = "limit" THEN cur.price * cur.amount
                     ELSE cur.quote_amount
          IN  IF balances[u][a].available < amt
              THEN /\ cur.id \in DOMAIN replies'
                   /\ replies'[cur.id] = "InsufficientFunds"
                   /\ UNCHANGED <<balances, orderbook, orders, wal_queue>>
              ELSE /\ balances'[u][a].available
                          = balances[u][a].available - amt
                   /\ balances'[u][a].locked = balances[u][a].locked + amt
                   /\ \A v \in Users, b \in Assets :
                          (v # u \/ b # a) => balances'[v][b] = balances[v][b]
      ]_vars

WitnessReservationRefused ==
    /\ pc = "idle"
    /\ \E c \in DOMAIN replies :
           replies[c] = "InsufficientFunds" /\ c \notin DOMAIN orders
    /\ \E id \in DOMAIN orderbook.orders_by_id : id \in DOMAIN orders
    /\ \E u \in Users, a \in Assets :
           0 < balances[u][a].available /\ 0 < balances[u][a].locked

\* C17: when a SubmitOrder command completes, the incoming order is in the
\* book if and only if it is a limit order with remaining quantity > 0; a
\* limit order filled on arrival and a market order are not in the book, and
\* neither is a refused order.
RestingRule ==
    [][/\ (pc = "finish" /\ pc' = "idle") =>
              LET o == orders'[cur.id]
                  rests == /\ cur.id \in DOMAIN orderbook'.orders_by_id
                           /\ Occurrences(orderbook', cur.id) # {}
                  gone == /\ cur.id \notin DOMAIN orderbook'.orders_by_id
                          /\ Occurrences(orderbook', cur.id) = {}
              IN  IF o.kind = "limit" /\ o.amount - o.filled_amount > 0
                  THEN rests /\ orderbook'.orders_by_id[cur.id].remaining
                                    = o.amount - o.filled_amount
                  ELSE gone
       /\ (pc = "lock" /\ pc' = "idle") =>
              /\ cur.id \notin DOMAIN orderbook'.orders_by_id
              /\ Occurrences(orderbook', cur.id) = {}
      ]_vars

WitnessTakerFilledOnArrival ==
    /\ pc = "idle"
    /\ \E t \in 1..Len(trades) :
           /\ orders[TakerId(trades[t])].kind = "limit"
           /\ orders[TakerId(trades[t])].status = "filled"
    /\ \E id \in DOMAIN orders :
           orders[id].kind = "market" /\ orders[id].filled_amount > 0

NoOpposite(c) ==
    \A p \in Prices : SideOf(orderbook, OppositeSide(c.side))[p] = <<>>

Increasing(ids) == \A i, j \in 1..Len(ids) : i < j => ids[i] < ids[j]

EntriesIn(log, n) ==
    /\ \A c \in DOMAIN replies :
           replies[c] \in {"Ok", "NoLiquidity"} =>
               \E i \in 1..n :
                   log[i].type = "OrderCreated" /\ log[i].order_id = c
    /\ \A id \in DOMAIN orders :
           (orders[id].kind = "limit" /\ orders[id].status = "cancelled") =>
               \E i \in 1..n :
                   log[i].type = "OrderCancelled" /\ log[i].order_id = id
    /\ \A t \in 1..Len(trades) :
           TakerId(trades[t]) \in DOMAIN replies =>
               \E i \in 1..n :
                   log[i].type = "TradeExecuted" /\ log[i].trade_no = t

Recovered == replay(ReplayInit, SubSeq(wal_file, 1, wal_synced))

\* the command being processed has no further WAL entry to send
NoEntryToCome ==
    CASE pc = "add" -> match_order(cur, add_order(orderbook, cur)).matches = <<>>
      [] pc = "match" -> match_order(cur, orderbook).matches = <<>>
      [] pc \in {"settle", "record"} -> FALSE
      [] OTHER -> TRUE

\* the first k entries of the log are exactly the entries of whole commands
CommandBoundary(k) ==
    IF k < Len(WalAll) THEN WalAll[k + 1].type # "TradeExecuted"
    ELSE NoEntryToCome

\* C21: after a crash at any point, the state recovered by replay equals the
\* state live processing reaches after exactly the commands whose WAL entries
\* were synchronized before the crash, a prefix of the command order; no
\* effect of a command whose entries were not all synchronized is present.
CrashRecoversPrefix ==
    \E k \in 0..Len(WalAll) :
        /\ k <= wal_synced
        /\ CommandBoundary(k)
        /\ Recovered = replay(ReplayInit, SubSeq(WalAll, 1, k))

\* C22: a caller that stops waiting for its reply does no harm: the engine
\* completes that command, answers or not, and goes on with the later
\* commands; a reply that cannot be delivered never stops the engine loop.
AbandonmentHarmless ==
    [][(Dropped(cur.id) /\ pc' # pc) => pc' # "panicked"]_vars

\* C23: a read that does not go through the command queue can come at any
\* moment of the engine loop, also in the middle of a command. Whatever
\* state it meets, every order of the id-lookup is in exactly one price
\* level, on its side and at its price, with the same remaining quantity,
\* every order of a price level is in the id-lookup, and every balance
\* record has available >= 0 and locked >= 0. It may be stale, never torn.
ConsistentReads ==
    /\ \A id \in DOMAIN orderbook.orders_by_id :
           LET e == orderbook.orders_by_id[id]
           IN  /\ Cardinality(Occurrences(orderbook, id)) = 1
               /\ \A x \in Occurrences(orderbook, id) :
                      /\ x[1] = e.side /\ x[2] = e.price
                      /\ EntryAt(orderbook, x).remaining = e.remaining
    /\ \A x \in AllLevelEntries(orderbook) :
           EntryAt(orderbook, x).id \in DOMAIN orderbook.orders_by_id
    /\ \A u \in Users, a \in Assets :
           balances[u][a].available >= 0 /\ balances[u][a].locked >= 0

\* in the middle of a command: the book already shows a partial fill that
\* the order record and the balances do not show yet
WitnessReadDuringCommand ==
    /\ pc = "settle"
    /\ \E id \in DOMAIN orderbook.orders_by_id :
           /\ orderbook.orders_by_id[id].remaining < orders[id].amount
           /\ orders[id].filled_amount = 0
           /\ balances[orders[id].user][LockAsset(orders[id])].locked
                  >= orders[id].amount

FillInHand == pc = "settle"

QuantityLeft(ord) == ord.amount - ord.filled_amount

\* a market buy is given as a quote amount: what it can still take at price p
BudgetLeft(ord, p) == (ord.quote_amount - ord.filled_quote_amount) \div p

ByQuote(ord) == ord.kind = "market" /\ ord.side = "buy"

BidPrices == {p \in Prices : orderbook.buy_side[p] # <<>>}

AskPrices == {p \in Prices : orderbook.sell_side[p] # <<>>}

\* C26: the book is never crossed at rest: once matching of the incoming
\* order is done, so in particular after every command, the best bid is
\* strictly lower than the best ask or one side is empty. Matching therefore
\* did not stop while a resting opposite order still crossed an incoming
\* limit order with remaining quantity.
BookNotCrossed ==
    pc # "match" =>
        \/ BidPrices = {}
        \/ AskPrices = {}
        \/ SetMax(BidPrices) < SetMin(AskPrices)

\* both sides hold orders after an incoming limit order took what crossed
\* it and came to rest with what was left
WitnessRestAfterCrossing ==
    /\ pc = "idle"
    /\ BidPrices # {}
    /\ AskPrices # {}
    /\ \E id \in DOMAIN orderbook.orders_by_id :
           /\ id \in DOMAIN replies
           /\ \E t \in 1..Len(trades) : TakerId(trades[t]) = id

\* sum of the reservations still required by the resting orders in S
RECURSIVE SumLocks(_)
SumLocks(S) ==
    IF S = {} THEN 0
    ELSE LET id == CHOOSE x \in S : TRUE
         IN  RemainingLock(orderbook.orders_by_id[id]) + SumLocks(S \ {id})

RestingOrders(u, a) ==
    {id \in DOMAIN orderbook.orders_by_id :
        /\ orderbook.orders_by_id[id].user = u
        /\ LockAsset(orderbook.orders_by_id[id]) = a}

StatusAgreesWithFilled ==
    \A id \in DOMAIN orders :
        LET ord == orders[id]
        IN  /\ 0 <= ord.filled_amount
            /\ ord.filled_amount <= ord.amount
            /\ ord.status = "filled" <=> ord.filled_amount = ord.amount
            /\ ord.status = "partial" =>
                   0 < ord.filled_amount /\ ord.filled_amount < ord.amount

RefreshesInFlight == {p \in 1..MaxRequests : promises[p] = "pending"}

\* C30: at most one token refresh is in flight at any time: a request that
\* gets a 401 while a refresh is in progress starts none and waits for that
\* one; no request is sent more than twice, and the second time it is sent
\* with retry disabled.
SingleFlightRefresh ==
    /\ Cardinality(RefreshesInFlight) <= 1
    /\ \A r \in 1..MaxRequests :
           /\ requests[r].sends <= 2
           /\ requests[r].sends = 2 => ~requests[r].retry
           /\ requests[r].pc = "waiting" =>
                  /\ promises[r] = "none"
                  /\ requests[r].awaits # r

\* two requests got a 401 during the refresh started by a third; all three
\* were sent a second time
WitnessWaitersResent ==
    \E o \in 1..MaxRequests :
        /\ promises[o] = "resolved"
        /\ \A r \in 1..MaxRequests :
               /\ requests[r].sends = 2
               /\ r # o => promises[r] = "none"

====
